---- MODULE Spec2Model ----
(***************************************************************************)
(* Screen recorder (src/script.js): the page's module-level state, its     *)
(* four click handlers, the provider callbacks (track ended, data          *)
(* available, encoder stop) and the continuations of its async functions   *)
(* after each await, as one state machine on the browser's event loop.     *)
(*                                                                         *)
(* Each action is one event-loop task: a handler runs from its entry (or   *)
(* from the await it resumes after) to its next await or its return.       *)
(* Host answers (a promise resolving or rejecting, the user's answer to a  *)
(* confirm dialog, the size of a chunk) are inputs drawn with \E.          *)
(* The variable event records what the last task did; the properties read  *)
(* it, the program does not.                                               *)
(***************************************************************************)
EXTENDS Integers, Sequences, FiniteSets, TLC

\* ------------------------------------------------------------------ bounds
\* Recorders (MediaRecorder objects) ever constructed.
MaxRec == 2
\* Capture streams the Capture Provider ever returns.
MaxStreams == 2
\* pickSource invocations awaiting getDisplayMedia at the same time.
MaxPending == 2
\* pickSaveLocation invocations awaiting the picker at the same time.
MaxPickSave == 1

Recs == 1..MaxRec
Streams == 1..MaxStreams
Slots == 1..MaxPending
\* A recorder that was constructed and whose start() threw: it stays inactive
\* for good and no task of it is ever queued, so all of them share one id.
Unstarted == MaxRec + 1
\* File handles, named by the call of showSaveFilePicker that returned them: the
\* one in saveRecording for recorder r is r, the one in pickSaveLocation is Picked.
Picked == MaxRec + 1

\* ------------------------------------------------------------ host values
\* Rejections of getDisplayMedia (err.name).
CaptureErrors == {"NotAllowedError", "SecurityError", "OverconstrainedError"}
\* Rejections of showSaveFilePicker, createWritable, write and close.
SaveErrors == {"AbortError", "SecurityError", "NotAllowedError", "TypeError"}
\* Date.now() - startTime at a timer tick, in milliseconds (samples).
DiffSamples == {3671000}
\* The ordered preference list of startRecording.
types == <<"video/webm; codecs=vp9,opus", "video/webm; codecs=vp8,opus", "video/webm">>

VARIABLES
    \* CapabilityProfile (script.js 22-23, 40): fixed at page load. isMobile
    \* (script.js 24) only chooses between two texts of the same error banner.
    secureContext, supportsDisplayMedia, supportsFileSystemAccess,
    loaded,              \* init() has run
    \* module-level variables (script.js 13-19)
    mediaRecorder,       \* 0 (undefined), the id of the recorder started last, or Unstarted
    recordedChunks,      \* sequence of chunks, each named by the recorder it came from
    timerInterval,       \* 0 (undefined) or the id setInterval returned last
    currentStream,       \* 0 (null) or a stream id
    fileHandle,          \* 0 (null) or a handle id
    isFilePickerBlocked,
    \* DOM
    pickSourceDisabled, pickSaveDisabled, pickSaveHidden, startDisabled, stopDisabled,
    timerText, statusText, sourceStatus, previewSrc,
    \* host objects
    streamState,         \* stream -> "none" (not handed out) | "live" | "ended"
    enc,                 \* recorder -> its encoder
    timers,              \* ids of the interval timers still scheduled
    \* async functions suspended at an await
    pick,                \* slot -> a pickSource invocation
    pickSavePending,     \* pickSaveLocation invocations awaiting the picker
    save,                \* recorder -> the saveRecording its onstop awaits
    \* history, read by the properties only
    captureRequests,     \* getDisplayMedia was called at least once
    event                \* what the last task did, the banner it showed included

caps == <<secureContext, supportsDisplayMedia, supportsFileSystemAccess>>
globals == <<mediaRecorder, recordedChunks, timerInterval, currentStream, fileHandle,
             isFilePickerBlocked>>
dom == <<pickSourceDisabled, pickSaveDisabled, pickSaveHidden, startDisabled, stopDisabled,
         timerText, statusText, sourceStatus, previewSrc>>
host == <<streamState, enc, timers>>
asyncs == <<pick, pickSavePending, save>>
vars == <<caps, loaded, globals, dom, host, asyncs, captureRequests, event>>
\* Everything the Controller owns or shows: all but the history.
ctrl == <<caps, loaded, globals, dom, host, asyncs>>

\* ---------------------------------------------------------------- helpers
\* n.toString().padStart(2, '0'), as the sequence of its decimal digits
RECURSIVE Digits(_)
Digits(n) == IF n < 10 THEN <<n>> ELSE Append(Digits(n \div 10), n % 10)

padStart2(n) == IF Len(Digits(n)) < 2 THEN <<0>> \o Digits(n) ELSE Digits(n)

\* The text updateTimer writes for diff = Date.now() - startTime.
timerFormat(diff) ==
    <<padStart2(diff \div 3600000),
      padStart2((diff % 3600000) \div 60000),
      padStart2((diff % 60000) \div 1000)>>

ZeroTime == <<(<<0, 0>>), (<<0, 0>>), (<<0, 0>>)>>

\* stream.getTracks().forEach(track => track.stop()) on stream s: the tracks'
\* readyState becomes "ended", as it does when the user stops sharing.
stopTracks(ss, s) ==
    IF s # 0 /\ ss[s] = "live" THEN [ss EXCEPT ![s] = "ended"] ELSE ss

\* As recorderActive, were the guard to test the recorder only and not its state.
recorderExists(en) == mediaRecorder \in Recs /\ en[mediaRecorder].phase # "none"

\* mediaRecorder && mediaRecorder.state !== 'inactive'
recorderActive(en) == mediaRecorder \in Recs /\ en[mediaRecorder].phase = "recording"

\* MediaRecorder.stop(): the state becomes inactive and the task that fires
\* dataavailable and then stop is queued.
recorderStop(en, r) == [en EXCEPT ![r].phase = "stopping"]

\* phase: "none" (not constructed), "recording", "stopping" (inactive, its stop
\* task queued), "inactive" (no task of it is left).
NoEnc == [phase |-> "none", stream |-> 0]
Inactive == [NoEnc EXCEPT !.phase = "inactive"]
NoSave == [pc |-> "none", blob |-> <<>>, handle |-> 0]
NoPick == [pc |-> "free", reqs |-> 0]

\* The banner showMessage puts up; NoMessage when the task showed none.
NoMessage == [text |-> "", type |-> ""]

\* The event of a task named op that did nothing the properties ask about.
\*   rec        the recorder the task started, stopped or saved (0: none)
\*   reset      resetToInitial ran in the task
\*   shown      the banner the task put up
\*   err        the rejection the task caught from getDisplayMedia(constraints) or
\*              from the picker of pickSaveLocation
\*   target     fileHandle when the task began
\*   data       the chunks the task's dataavailable delivered
\*   blob       the blob saveRecording built or carried in the task
\*   prompts    the dialogs saveRecording opened in the task
\*   cause      why saveRecording returned in the task
\*   downloaded the blobs handed to triggerDownload in the task
\*   written    the handle a completed write went through (0: none)
Ev(op) == [op |-> op, rec |-> 0, reset |-> FALSE, shown |-> NoMessage, err |-> "",
           target |-> 0, data |-> <<>>, blob |-> <<>>, prompts |-> {}, cause |-> "",
           downloaded |-> <<>>, written |-> 0, supported |-> {}, mimeType |-> ""]

\* showMessage(text, type = 'error')
showMessage(ev, text, type) == [ev EXCEPT !.shown = [text |-> text, type |-> type]]

\* ------------------------------------------------------------------- Init
Init ==
    /\ secureContext \in BOOLEAN
    /\ supportsDisplayMedia \in BOOLEAN
    /\ supportsFileSystemAccess \in BOOLEAN
    /\ loaded = FALSE
    /\ mediaRecorder = 0
    /\ recordedChunks = <<>>
    /\ timerInterval = 0
    /\ currentStream = 0
    /\ fileHandle = 0
    /\ isFilePickerBlocked = FALSE
    /\ pickSourceDisabled = FALSE
    /\ pickSaveDisabled = FALSE
    /\ pickSaveHidden = FALSE
    /\ startDisabled = TRUE
    /\ stopDisabled = TRUE
    /\ timerText = ZeroTime
    /\ statusText = "Ready to Record"
    /\ sourceStatus = "No source selected"
    /\ previewSrc = 0
    /\ streamState = [s \in Streams |-> "none"]
    /\ enc = [r \in Recs |-> NoEnc]
    /\ timers = {}
    /\ pick = [i \in Slots |-> NoPick]
    /\ pickSavePending = 0
    /\ save = [r \in Recs |-> NoSave]
    /\ captureRequests = FALSE
    /\ event = Ev("load")

\* As init, were the check for a secure context left out.
initNoSecureCheck ==
    /\ ~loaded
    /\ loaded' = TRUE
    /\ event' = IF supportsDisplayMedia THEN Ev("init")
                ELSE showMessage(Ev("init"), "not supported", "error")
    /\ pickSourceDisabled' = IF supportsDisplayMedia THEN pickSourceDisabled ELSE TRUE
    /\ pickSaveHidden' = IF supportsFileSystemAccess THEN pickSaveHidden ELSE TRUE
    /\ UNCHANGED <<caps, globals, host, asyncs, captureRequests>>
    /\ UNCHANGED <<pickSaveDisabled, startDisabled, stopDisabled, timerText, statusText,
                   sourceStatus, previewSrc>>

\* ----------------------------------------------------------------- init()
\* init(), run as the script loads. On Brave it awaits navigator.brave.isBrave()
\* (script.js 47) to insert a tip; what it does after that await is guarded
\* again by the handlers themselves (script.js 89, 148), so it is one step here.
init ==
    /\ ~loaded
    /\ loaded' = TRUE
    /\ IF ~secureContext
       THEN /\ event' = showMessage(Ev("init"), "requires a secure connection", "error")
            /\ pickSourceDisabled' = TRUE
            /\ UNCHANGED pickSaveHidden
       ELSE /\ event' = IF supportsDisplayMedia THEN Ev("init")
                        ELSE showMessage(Ev("init"), "not supported", "error")
            /\ pickSourceDisabled' = IF supportsDisplayMedia THEN pickSourceDisabled
                                     ELSE TRUE
            /\ pickSaveHidden' = IF supportsFileSystemAccess THEN pickSaveHidden ELSE TRUE
    /\ UNCHANGED <<caps, globals, host, asyncs, captureRequests>>
    /\ UNCHANGED <<pickSaveDisabled, startDisabled, stopDisabled, timerText, statusText,
                   sourceStatus, previewSrc>>

\* As resetToInitial, were "fileHandle = null" left out.
resetKeepsTarget(ss) ==
    /\ timers' = timers \ {timerInterval}
    /\ timerText' = ZeroTime
    /\ startDisabled' = TRUE
    /\ stopDisabled' = TRUE
    /\ pickSourceDisabled' = ~supportsDisplayMedia
    /\ statusText' = "Ready to Record"
    /\ streamState' = stopTracks(ss, currentStream)
    /\ currentStream' = 0
    /\ previewSrc' = 0
    /\ sourceStatus' = "No source selected"
    /\ fileHandle' = fileHandle

\* ------------------------------------------------------- resetToInitial()
\* ss is the stream table as the calling task has left it so far.
resetToInitial(ss) ==
    /\ timers' = timers \ {timerInterval}
    /\ timerText' = ZeroTime
    /\ startDisabled' = TRUE
    /\ stopDisabled' = TRUE
    /\ pickSourceDisabled' = ~supportsDisplayMedia
    /\ statusText' = "Ready to Record"
    /\ streamState' = stopTracks(ss, currentStream)
    /\ currentStream' = 0
    /\ previewSrc' = 0
    /\ sourceStatus' = "No source selected"
    /\ fileHandle' = 0

\* What resetToInitial writes.
resetVars == <<timers, timerText, startDisabled, stopDisabled, pickSourceDisabled,
               statusText, streamState, currentStream, previewSrc, sourceStatus, fileHandle>>

\* ----------------------------------------------------------- pickSource()
\* The success path after either getDisplayMedia call (script.js 112-126):
\* stream s is new and live, and its video track's onended is registered.
sourceAcquired(i, s) ==
    /\ streamState' = [streamState EXCEPT ![s] = "live"]
    /\ currentStream' = s
    /\ previewSrc' = s
    /\ sourceStatus' = "Source: label"
    /\ startDisabled' = FALSE
    /\ pick' = [pick EXCEPT ![i] = NoPick]
    /\ event' = Ev("pickSource")

\* The catch of pickSource (script.js 128-141) for a rejection named e.
sourceFailed(i, e) ==
    /\ event' = IF e = "NotAllowedError"
                THEN showMessage(Ev("pickSource"), "Permission denied", "info")
                ELSE IF e = "SecurityError"
                THEN showMessage(Ev("pickSource"), "Security Error", "error")
                ELSE showMessage(Ev("pickSource"), "Error (name): message", "error")
    /\ pick' = [pick EXCEPT ![i] = NoPick]
    /\ UNCHANGED <<streamState, currentStream, previewSrc, sourceStatus, startDisabled>>

\* The stream id the Capture Provider hands out next.
FreshStream(s) == streamState[s] = "none" /\ \A u \in Streams : u < s => streamState[u] # "none"

\* A click on pickSourceBtn: pickSource up to its first await.
pickSource ==
    /\ loaded /\ ~pickSourceDisabled
    /\ \E i \in Slots :
        /\ pick[i].pc = "free" /\ \A j \in Slots : j < i => pick[j].pc # "free"
        /\ IF ~supportsDisplayMedia
           THEN UNCHANGED <<streamState, pick, captureRequests>>
           ELSE /\ streamState' = stopTracks(streamState, currentStream)
                /\ pick' = [pick EXCEPT ![i] = [pc |-> "await1", reqs |-> 1]]
                /\ captureRequests' = TRUE
    /\ event' = Ev("pickSource")
    /\ UNCHANGED <<caps, loaded, globals, enc, timers, pickSavePending, save>>
    /\ UNCHANGED <<pickSourceDisabled, pickSaveDisabled, pickSaveHidden, startDisabled,
                   stopDisabled, timerText, statusText, sourceStatus, previewSrc>>

\* As getDisplayMediaSettled, were there no inner try/catch: the first
\* rejection goes to the catch of pickSource.
getDisplayMediaNoRetry(i) ==
    /\ pick[i].pc = "await1"
    /\ \/ \E s \in Streams : FreshStream(s) /\ sourceAcquired(i, s)
       \/ \E e \in CaptureErrors : sourceFailed(i, e)
    /\ UNCHANGED <<caps, loaded, mediaRecorder, recordedChunks, timerInterval, fileHandle,
                   isFilePickerBlocked, enc, timers, pickSavePending, save,
                   captureRequests>>
    /\ UNCHANGED <<pickSourceDisabled, pickSaveDisabled, pickSaveHidden, stopDisabled,
                   timerText, statusText>>

\* getDisplayMedia(constraints) settles: pickSource resumes after its first await.
getDisplayMediaSettled(i) ==
    /\ pick[i].pc = "await1"
    /\ \/ \E s \in Streams :
            /\ FreshStream(s)
            /\ sourceAcquired(i, s)
            /\ UNCHANGED captureRequests
       \/ \E e \in CaptureErrors :
            \* catch (initialErr): retry with { video: true }
            /\ pick' = [pick EXCEPT ![i].pc = "await2", ![i].reqs = @ + 1]
            /\ captureRequests' = TRUE
            /\ event' = [Ev("pickSource") EXCEPT !.err = e, !.cause = "retry"]
            /\ UNCHANGED <<streamState, currentStream, previewSrc, sourceStatus,
                           startDisabled>>
    /\ UNCHANGED <<caps, loaded, mediaRecorder, recordedChunks, timerInterval, fileHandle,
                   isFilePickerBlocked, enc, timers, pickSavePending, save>>
    /\ UNCHANGED <<pickSourceDisabled, pickSaveDisabled, pickSaveHidden, stopDisabled,
                   timerText, statusText>>

\* getDisplayMedia({ video: true }) settles: pickSource resumes after the retry.
getDisplayMediaRetrySettled(i) ==
    /\ pick[i].pc = "await2"
    /\ \/ \E s \in Streams : FreshStream(s) /\ sourceAcquired(i, s)
       \/ \E e \in CaptureErrors : sourceFailed(i, e)
    /\ UNCHANGED <<caps, loaded, mediaRecorder, recordedChunks, timerInterval, fileHandle,
                   isFilePickerBlocked, enc, timers, pickSavePending, save,
                   captureRequests>>
    /\ UNCHANGED <<pickSourceDisabled, pickSaveDisabled, pickSaveHidden, stopDisabled,
                   timerText, statusText>>

\* videoTrack.onended of stream s: the user stopped sharing through the browser.
videoTrackEnded(s) ==
    /\ streamState[s] = "live"
    /\ enc' = IF recorderActive(enc) THEN recorderStop(enc, mediaRecorder) ELSE enc
    /\ resetToInitial([streamState EXCEPT ![s] = "ended"])
    /\ event' = [Ev("onended") EXCEPT !.reset = TRUE, !.target = fileHandle,
                                      !.rec = IF recorderActive(enc) THEN mediaRecorder ELSE 0]
    /\ UNCHANGED <<caps, loaded, mediaRecorder, recordedChunks, timerInterval,
                   isFilePickerBlocked, pickSaveDisabled, pickSaveHidden,
                   asyncs, captureRequests>>

\* ----------------------------------------------------- pickSaveLocation()
\* A click on pickSaveBtn: pickSaveLocation up to its await.
pickSaveLocation ==
    /\ loaded /\ ~pickSaveDisabled /\ ~pickSaveHidden
    /\ pickSavePending < MaxPickSave
    /\ pickSavePending' = IF supportsFileSystemAccess THEN pickSavePending + 1
                          ELSE pickSavePending
    /\ event' = Ev("task")
    /\ UNCHANGED <<caps, loaded, globals, dom, host, pick, save, captureRequests>>

\* showSaveFilePicker settles: pickSaveLocation resumes after its await.
pickSaveSettled ==
    /\ pickSavePending > 0
    /\ pickSavePending' = pickSavePending - 1
    /\ \/ /\ fileHandle' = Picked
          /\ UNCHANGED <<isFilePickerBlocked, pickSaveDisabled>>
          /\ event' = Ev("pickSaveLocation")
       \/ \E e \in SaveErrors :
          /\ isFilePickerBlocked' = IF e \in {"SecurityError", "NotAllowedError"} THEN TRUE
                                    ELSE isFilePickerBlocked
          /\ pickSaveDisabled' = IF e \in {"SecurityError", "NotAllowedError"} THEN TRUE
                                 ELSE pickSaveDisabled
          /\ event' = [Ev("pickSaveLocation") EXCEPT !.err = e]
          /\ UNCHANGED fileHandle
    /\ UNCHANGED <<caps, loaded, mediaRecorder, recordedChunks, timerInterval, currentStream,
                   streamState, enc, timers, pick, save, captureRequests>>
    /\ UNCHANGED <<pickSourceDisabled, pickSaveHidden, startDisabled, stopDisabled,
                   timerText, statusText, sourceStatus, previewSrc>>

\* ------------------------------------------------------- startRecording()
\* types.find(type => MediaRecorder.isTypeSupported(type)): the first entry of
\* the preference list that the host supports, "" when it supports none.
selectType(supported) ==
    IF \E k \in 1..Len(types) : types[k] \in supported
    THEN types[CHOOSE k \in 1..Len(types) :
                  /\ types[k] \in supported
                  /\ \A j \in 1..(k - 1) : types[j] \notin supported]
    ELSE ""

\* The recorder id new MediaRecorder(...) yields next.
FreshRec(r) == enc[r].phase = "none" /\ \A u \in Recs : u < r => enc[u].phase # "none"

\* What a startRecording task that got past its stream guard did: the formats
\* MediaRecorder.isTypeSupported accepted and the mimeType that types.find chose.
startEv(supported) ==
    [Ev("startRecording") EXCEPT !.supported = supported,
                                 !.mimeType = selectType(supported)]

\* As startFailed, had the button updates of script.js 219-221 been placed
\* ahead of the try block.
startFailedAfterUi(supported, text) ==
    /\ event' = showMessage(startEv(supported), text, "error")
    /\ startDisabled' = TRUE
    /\ stopDisabled' = FALSE
    /\ pickSourceDisabled' = TRUE
    /\ UNCHANGED <<enc, timerInterval, timers, statusText>>

\* startRecording gives up: no supported format (script.js 195-198) or the catch
\* block (script.js 225-228). Only the message is shown.
startFailed(supported, text) ==
    /\ event' = showMessage(startEv(supported), text, "error")
    /\ UNCHANGED <<enc, timerInterval, timers, startDisabled, stopDisabled,
                   pickSourceDisabled, statusText>>

\* A click on startBtn. supported is what isTypeSupported accepts; thrown says
\* where the try block throws, if it does.
startRecording ==
    /\ loaded /\ ~startDisabled
    /\ \E r \in Recs, supported \in SUBSET {types[k] : k \in 1..Len(types)},
          thrown \in {"", "new", "start"} :
        /\ FreshRec(r)
        /\ IF currentStream = 0
           THEN /\ event' = Ev("startRecording")
                /\ UNCHANGED <<recordedChunks, mediaRecorder, enc, timerInterval,
                               timers, startDisabled, stopDisabled, pickSourceDisabled,
                               statusText>>
           ELSE /\ recordedChunks' = <<>>
                /\ IF selectType(supported) = "" \/ thrown = "new"
                   THEN /\ startFailed(supported, IF selectType(supported) = ""
                                                       THEN "no supported format"
                                                       ELSE "Failed to start recording")
                        /\ UNCHANGED mediaRecorder
                   ELSE IF thrown = "start"
                   THEN /\ mediaRecorder' = Unstarted
                        /\ startFailed(supported, "Failed to start recording")
                   ELSE /\ mediaRecorder' = r
                        /\ enc' = [enc EXCEPT ![r].phase = "recording",
                                              ![r].stream = currentStream]
                        /\ timerInterval' = r
                        /\ timers' = timers \cup {r}
                        /\ startDisabled' = TRUE
                        /\ stopDisabled' = FALSE
                        /\ pickSourceDisabled' = TRUE
                        /\ statusText' = "Recording..."
                        /\ event' = [startEv(supported) EXCEPT !.rec = r]
    /\ UNCHANGED <<caps, loaded, currentStream, fileHandle, isFilePickerBlocked,
                   streamState, asyncs, captureRequests>>
    /\ UNCHANGED <<pickSaveDisabled, pickSaveHidden, timerText, sourceStatus, previewSrc>>

\* mediaRecorder.ondataavailable for a chunk of recorder r; size is e.data.size.
\* start() is called without a timeslice (script.js 214) and requestData() is
\* never called, so the host delivers a recorder's data once, in its stop task.
ondataavailable(chunks, r, size) == IF size > 0 THEN Append(chunks, r) ELSE chunks

\* updateTimer, run by interval timer t.
updateTimer(t) ==
    /\ t \in timers
    /\ \E diff \in DiffSamples : timerText' = timerFormat(diff)
    /\ event' = Ev("task")
    /\ UNCHANGED <<caps, loaded, globals, host, asyncs, captureRequests>>
    /\ UNCHANGED <<pickSourceDisabled, pickSaveDisabled, pickSaveHidden, startDisabled,
                   stopDisabled, statusText, sourceStatus, previewSrc>>

\* -------------------------------------------------------- stopRecording()
\* A click on stopBtn.
stopRecording ==
    /\ loaded /\ ~stopDisabled
    /\ enc' = IF recorderActive(enc) THEN recorderStop(enc, mediaRecorder) ELSE enc
    /\ event' = Ev("stopRecording")
    /\ UNCHANGED <<caps, loaded, globals, dom, streamState, timers, asyncs,
                   captureRequests>>

\* The host stops recorder r by itself once every track of its stream has ended.
recorderTracksEnded(r) ==
    /\ enc[r].phase = "recording"
    /\ streamState[enc[r].stream] # "live"
    /\ enc' = recorderStop(enc, r)
    /\ event' = Ev("task")
    /\ UNCHANGED <<caps, loaded, globals, dom, streamState, timers, asyncs,
                   captureRequests>>

\* --------------------------------------------------------- saveRecording()
\* triggerDownload(blob): the blob is handed to the browser as a download; ok
\* is false when the host blocks it and the function's own catch reports that.
triggerDownload(ev, blob, ok) ==
    IF ok
    THEN showMessage([ev EXCEPT !.downloaded = Append(@, blob)],
                     "Recording saved to Downloads folder.", "info")
    ELSE showMessage([ev EXCEPT !.downloaded = Append(@, blob)], "Save failed.", "error")

\* mediaRecorder.onstop after "await saveRecording()": resetToInitial().
onstopReturn(ev, r) ==
    /\ resetToInitial(streamState)
    /\ save' = [save EXCEPT ![r] = NoSave]
    /\ event' = [ev EXCEPT !.reset = TRUE]

\* As saveFallback, were only a cancellation to fall back to the download and
\* any other error to be reported instead.
saveFallbackAbortOnly(ev, r, blob, cause) ==
    IF cause \in {"declined", "unavailable", "AbortError"}
    THEN \E ok \in BOOLEAN :
            onstopReturn([triggerDownload(ev, blob, ok) EXCEPT !.cause = cause], r)
    ELSE onstopReturn(showMessage([ev EXCEPT !.cause = cause], "Error saving file.",
                                  "error"), r)

\* As saveFallback, were triggerDownload to have no try/catch of its own: a
\* download that throws leaves saveRecording by the exception, and onstop never
\* gets to resetToInitial.
saveFallbackThrows(ev, r, blob, cause) ==
    \E ok \in BOOLEAN :
        IF ok
        THEN onstopReturn([triggerDownload(ev, blob, ok) EXCEPT !.cause = cause], r)
        ELSE /\ save' = [save EXCEPT ![r] = NoSave]
             /\ event' = [ev EXCEPT !.cause = cause]
             /\ UNCHANGED resetVars

\* The fallback of saveRecording (script.js 267-276), taken for `cause`, and
\* the return to onstop.
saveFallback(ev, r, blob, cause) ==
    \E ok \in BOOLEAN :
        onstopReturn([triggerDownload(ev, blob, ok) EXCEPT !.cause = cause], r)

\* As interactiveSave, were the capability not tested.
interactiveUnchecked == ~isFilePickerBlocked

\* As interactiveSave, were the sticky flag not tested.
interactiveUnblocked == supportsFileSystemAccess

\* supportsFileSystemAccess && !isFilePickerBlocked (script.js 250)
interactiveSave == supportsFileSystemAccess /\ ~isFilePickerBlocked

\* saveRecording from its entry to its first await or its return, with the
\* chunk buffer as the stop task left it; confirmed is the user's answer to
\* confirm(), asked only when the condition gets to evaluate it.
saveRecording(ev, r, chunks, confirmed) ==
    LET asked == interactiveSave /\ fileHandle = 0
        ev1 == [ev EXCEPT !.blob = chunks,
                          !.prompts = IF asked THEN {"confirm"} ELSE {}]
    IN  IF Len(chunks) = 0
        THEN onstopReturn([ev EXCEPT !.cause = "empty"], r)
        ELSE IF interactiveSave /\ (fileHandle # 0 \/ confirmed)
        THEN /\ IF fileHandle = 0
                THEN /\ save' = [save EXCEPT ![r] = [pc |-> "picker", blob |-> chunks,
                                                     handle |-> 0]]
                     /\ event' = [ev1 EXCEPT !.prompts = @ \cup {"picker"}]
                ELSE /\ save' = [save EXCEPT ![r] = [pc |-> "write", blob |-> chunks,
                                                     handle |-> fileHandle]]
                     /\ event' = ev1
             /\ UNCHANGED resetVars
        ELSE saveFallback(ev1, r, chunks, IF asked THEN "declined" ELSE "unavailable")

\* The task the host queued when recorder r stopped: dataavailable with the rest
\* of the data (size is e.data.size), then stop, whose handler runs saveRecording.
onstop(r) ==
    /\ enc[r].phase = "stopping"
    /\ \E size \in {0, 1}, confirmed \in BOOLEAN :
        LET chunks == ondataavailable(recordedChunks, r, size)
            ev == [Ev("onstop") EXCEPT !.rec = r, !.target = fileHandle,
                                       !.data = ondataavailable(<<>>, r, size)]
        IN  /\ recordedChunks' = chunks
            /\ enc' = [enc EXCEPT ![r] = Inactive]
            /\ saveRecording(ev, r, chunks, confirmed)
    /\ UNCHANGED <<caps, loaded, mediaRecorder, timerInterval, isFilePickerBlocked,
                   pickSaveDisabled, pickSaveHidden, pick, pickSavePending,
                   captureRequests>>

\* What a continuation of saveRecording leaves alone whatever it does.
saveFrame == <<caps, loaded, mediaRecorder, recordedChunks, timerInterval,
               isFilePickerBlocked, pickSaveDisabled, pickSaveHidden, enc, pick,
               pickSavePending, captureRequests>>

\* The event of a continuation of the save of recorder r.
SaveEv(r) == [Ev("save") EXCEPT !.rec = r, !.blob = save[r].blob]

\* showSaveFilePicker of saveRecording settles (script.js 252-261).
saveFilePickerSettled(r) ==
    /\ save[r].pc = "picker"
    /\ \/ /\ fileHandle' = r
          /\ save' = [save EXCEPT ![r].pc = "write", ![r].handle = r]
          /\ event' = SaveEv(r)
          /\ UNCHANGED <<timers, timerText, startDisabled, stopDisabled,
                         pickSourceDisabled, statusText, streamState, currentStream,
                         previewSrc, sourceStatus>>
       \/ \E e \in SaveErrors : saveFallback(SaveEv(r), r, save[r].blob, e)
    /\ UNCHANGED saveFrame

\* The writes of saveRecording settle (script.js 261-264): createWritable(),
\* write(blob) and close() are awaited one after the other inside the same try,
\* and nothing but this continuation reads the writable, so the three awaits
\* are one step here: either all three resolve and saveRecording returns
\* ("Successfully saved"), or the first of them to reject does so with e.
writeSettled(r) ==
    /\ save[r].pc = "write"
    /\ \/ onstopReturn([SaveEv(r) EXCEPT !.written = save[r].handle,
                                          !.cause = "written"], r)
       \/ \E e \in SaveErrors : saveFallback(SaveEv(r), r, save[r].blob, e)
    /\ UNCHANGED saveFrame

\* ------------------------------------------------------------------- spec
\* Every task but a click on pickSourceBtn.
Tasks ==
    \/ init
    \/ \E i \in Slots : getDisplayMediaSettled(i)
    \/ \E i \in Slots : getDisplayMediaRetrySettled(i)
    \/ \E s \in Streams : videoTrackEnded(s)
    \/ pickSaveLocation
    \/ pickSaveSettled
    \/ startRecording
    \/ \E t \in Recs : updateTimer(t)
    \/ stopRecording
    \/ \E r \in Recs : recorderTracksEnded(r)
    \/ \E r \in Recs : onstop(r)
    \/ \E r \in Recs : saveFilePickerSettled(r)
    \/ \E r \in Recs : writeSettled(r)

Next == pickSource \/ Tasks

Spec == Init /\ [][Next]_vars

\* A click on pickSourceBtn while no pickSource is waiting for the Capture
\* Provider.
pickSourceAlone == (\A i \in Slots : pick[i].pc = "free") /\ pickSource

FairNext == pickSourceAlone \/ Tasks

\* The steps of a user who does not click pickSourceBtn again while the
\* provider's prompt is open, with the scheduling the host guarantees: a task
\* it has queued runs (the stop task of a stopped recorder), and every provider
\* call of saveRecording returns or rejects.
FairSpec ==
    /\ Init /\ [][FairNext]_vars
    /\ \A r \in Recs : WF_vars(onstop(r))
    /\ \A r \in Recs : WF_vars(saveFilePickerSettled(r))
    /\ \A r \in Recs : WF_vars(writeSettled(r))

\* ------------------------------------------------------------- properties
\* C1: the blob handed to saveRecording when a recorder stops is exactly the
\* non-empty chunks that recorder delivered, in arrival order, with no chunk
\* lost and none of another recording mixed in.
C1_BlobIsOwnChunks ==
    event.op = "onstop" => event.blob = event.data

\* C2: right after every resetToInitial, whichever task ran it, the timer text
\* is 00:00:00, start and stop are disabled, no stream is held, the preview is
\* unbound and no SaveTarget is held.
C2_ResetIsIdle ==
    event.reset =>
        /\ timerText = <<(<<0, 0>>), (<<0, 0>>), (<<0, 0>>)>>
        /\ startDisabled /\ stopDisabled
        /\ currentStream = 0 /\ previewSrc = 0
        /\ fileHandle = 0

\* A reset that followed a failed write of a recording.
C2_Witness ==
    /\ event.reset /\ event.op = "save"
    /\ event.cause = "TypeError" /\ Len(event.downloaded) = 1

\* C3: stopRecording, invoked while the recorder is not recording (already
\* stopped, finalizing or saving), changes nothing the Controller owns or
\* shows and queues no further stop task, save or reset.
C3_StopIsNoop ==
    [][(/\ event'.op = "stopRecording"
        /\ ~(mediaRecorder \in Recs /\ enc[mediaRecorder].phase = "recording"))
       => UNCHANGED ctrl]_vars

\* stopRecording was invoked while the recorder's stop task was still queued.
C3_Witness ==
    /\ event.op = "stopRecording"
    /\ mediaRecorder \in Recs /\ enc[mediaRecorder].phase = "stopping"

\* C4: without the File System Access API no confirm dialog and no picker is
\* ever opened, no interactive save is ever pending, and every stopped
\* recording with a chunk is handed to triggerDownload.
C4_UnsupportedDownloads ==
    ~supportsFileSystemAccess =>
        /\ event.prompts = {} /\ event.written = 0
        /\ pickSavePending = 0
        /\ \A r \in Recs : save[r].pc = "none"
        /\ (event.op = "onstop" /\ event.blob # <<>>
                => event.downloaded = <<event.blob>>)

\* A recording with a chunk stopped where the API is missing.
C4_Witness ==
    /\ ~supportsFileSystemAccess
    /\ event.op = "onstop" /\ event.blob # <<>> /\ Len(event.downloaded) = 1

\* C5: a SecurityError or NotAllowedError caught in pickSaveLocation sets
\* isFilePickerBlocked; the flag never goes back to false; and a saveRecording
\* that starts while it is set opens no dialog and starts no write, whether
\* or not a SaveTarget is held.
C5_BlockedIsSticky ==
    [][/\ (event'.op = "pickSaveLocation"
              /\ event'.err \in {"SecurityError", "NotAllowedError"}
            => isFilePickerBlocked')
       /\ (isFilePickerBlocked => isFilePickerBlocked')
       /\ (isFilePickerBlocked /\ event'.op = "onstop"
            => /\ event'.prompts = {} /\ event'.written = 0
               /\ save'[event'.rec].pc = "none")]_vars

\* A recording with a chunk stopped after the rejection, a SaveTarget chosen
\* before the rejection still held.
C5_Witness ==
    /\ isFilePickerBlocked
    /\ event.op = "onstop" /\ event.target # 0 /\ event.blob # <<>>

\* C6: an invocation of pickSource whose first getDisplayMedia rejects asks
\* once more and no more: it never makes a third request, and when the second
\* request rejects too it ends there and shows a banner.
C6_RetryOnce ==
    [][\A i \in Slots :
        /\ pick'[i].reqs <= 2
        /\ (pick[i].pc = "await1" /\ pick'[i] # pick[i]
            => \/ pick'[i] = [pc |-> "await2", reqs |-> 2]
               \/ pick'[i].pc = "free" /\ currentStream' # currentStream)
        /\ (pick[i].pc = "await2" /\ pick'[i] # pick[i]
            => /\ pick'[i].pc = "free"
               /\ \/ currentStream' # currentStream
                  \/ event'.shown # NoMessage)]_vars

\* The second request of an invocation rejected and the failure was shown.
C6_Witness ==
    /\ event.op = "pickSource" /\ event.shown.type = "error"
    /\ \E i \in Slots : pick[i].pc = "free"

\* C7: when a stream's ended notification stops a recording, the reset comes
\* after the save of that recording, not in the notification's own task, and
\* the SaveTarget held at the notification is still held for that save.
C7_RevocationOrder ==
    event.op = "onended" /\ event.rec # 0 =>
        /\ ~event.reset
        /\ fileHandle = event.target

\* C8: with a non-empty blob, every failure of the interactive path (confirm
\* declined, picker cancelled or rejected, createWritable, write or close
\* rejected) hands that same blob to triggerDownload exactly once and writes
\* nothing; a cancellation shows no error banner but the download's own; and
\* a save that returns has either completed one write or triggered one
\* download, never both and never neither.
C8_FallbackOnce ==
    event.op \in {"onstop", "save"} /\ event.blob # <<>> =>
        /\ (event.cause \in ({"declined"} \cup SaveErrors)
                => event.downloaded = <<event.blob>> /\ event.written = 0)
        /\ (event.cause \in {"declined", "AbortError"} /\ event.shown.type = "error"
                => event.shown.text = "Save failed.")
        /\ (event.reset
                => \/ event.written # 0 /\ event.downloaded = <<>>
                   \/ event.written = 0 /\ event.downloaded = <<event.blob>>)

\* The picker of saveRecording was cancelled and the blob was downloaded.
C8_Witness ==
    /\ event.op = "save" /\ event.cause = "AbortError"
    /\ event.blob # <<>> /\ event.downloaded = <<event.blob>>
    /\ event.shown.type = "info"

\* C9: once a recorder has stopped, resetToInitial eventually runs in the task
\* that ends its save, whatever the save's outcome.
C9_StopLeadsToReset ==
    \A r \in Recs :
        (enc[r].phase = "stopping")
            ~> (event.reset /\ event.rec = r /\ event.op \in {"onstop", "save"})

\* The reset after a save whose fallback download failed as well.
C9_Witness ==
    /\ event.reset /\ event.op = "save" /\ event.cause = "SecurityError"
    /\ event.shown.text = "Save failed."

\* C10: on a page that is not a secure context, once init has run the source
\* button stays disabled and getDisplayMedia is never called.
C10_InsecureNeverCaptures ==
    ~secureContext /\ loaded =>
        /\ pickSourceDisabled
        /\ ~captureRequests
        /\ \A i \in Slots : pick[i].pc = "free"

\* An insecure page on which the user went on to choose a save location.
C10_Witness ==
    ~secureContext /\ loaded /\ fileHandle # 0 /\ pickSourceDisabled

\* C11: in every reachable state at most one MediaRecorder is in the recording
\* state, and a startRecording that starts a recorder never runs while an earlier
\* recorder is still stopping or its saveRecording is still awaiting.
C11_OneSession ==
    /\ Cardinality({r \in Recs : enc[r].phase = "recording"}) <= 1
    /\ event.op = "startRecording" /\ event.rec # 0 =>
           \A r \in Recs \ {event.rec} :
               enc[r].phase # "stopping" /\ save[r].pc = "none"

\* C12: no stream leaks. Every stream getDisplayMedia ever returned, other than
\* the one currentStream holds, has all of its tracks stopped.
C12_NoStreamLeak ==
    \A s \in Streams : streamState[s] = "live" => s = currentStream

\* C13: a fileHandle chosen with pickSaveLocation is the destination of the save
\* that follows the next stop, with no confirm() and no picker; the task that ends
\* that save clears it; and no task before that save clears it: a revocation that
\* stops the recording leaves it in place for the save it has queued.
C13_TargetServesNextSave ==
    /\ event.op = "onstop" /\ event.target = Picked /\ event.blob # <<>>
       /\ interactiveSave =>
           /\ event.prompts = {}
           /\ save[event.rec].pc = "write"
           /\ save[event.rec].handle = Picked
    /\ event.op \in {"onstop", "save"} /\ event.reset => fileHandle = 0
    /\ event.op = "onended" /\ event.rec # 0 /\ event.target = Picked =>
           fileHandle = Picked

\* C14: when the first getDisplayMedia of a pickSource invocation is rejected with
\* NotAllowedError, that task shows the informational "Permission denied" message
\* and does not issue the retry request.
C14_DeniedNoRetry ==
    event.op = "pickSource" /\ event.err = "NotAllowedError" =>
        /\ event.shown.type = "info"
        /\ event.cause # "retry"

\* C15: when the picker or the write inside saveRecording is rejected with a
\* security rejection, the task that handles it downloads the blob and also sets
\* isFilePickerBlocked, so that no later save tries the File System Access API.
C15_SaveRejectionBlocks ==
    event.op = "save" /\ event.cause \in {"SecurityError", "NotAllowedError"} =>
        /\ event.downloaded = <<event.blob>>
        /\ isFilePickerBlocked

\* C16: a pickSource that fails leaves the page as it was before the click. If
\* startBtn is enabled after the failure and nothing is recording, currentStream
\* is a stream that still has a live track; if no stream is held, startBtn is
\* disabled.
C16_FailedPickKeepsState ==
    event.op = "pickSource" /\ event.shown # NoMessage =>
        /\ currentStream = 0 => startDisabled
        /\ ~startDisabled /\ (\A r \in Recs : enc[r].phase # "recording") =>
               currentStream # 0 /\ streamState[currentStream] = "live"

\* C17: in every state in which a MediaRecorder is recording, startBtn and
\* pickSourceBtn are disabled and stopBtn is enabled.
C17_RecordingButtons ==
    (\E r \in Recs : enc[r].phase = "recording") =>
        startDisabled /\ pickSourceDisabled /\ ~stopDisabled

\* C18: when a recorder's stop task runs and no non-empty chunk arrived during
\* its recording, saveRecording does nothing (no confirm(), no picker, no write,
\* no download), and resetToInitial still runs and leaves the page idle.
C18_EmptyIsNoop ==
    event.op = "onstop" /\ event.data = <<>> =>
        /\ event.prompts = {}
        /\ event.downloaded = <<>>
        /\ event.written = 0
        /\ save[event.rec].pc = "none"
        /\ event.reset
        /\ currentStream = 0 /\ startDisabled /\ stopDisabled /\ fileHandle = 0

\* C19: startRecording does nothing when no stream is held. With a stream it
\* chooses the first entry of the preference list (vp9+opus, vp8+opus, plain webm)
\* that the host supports. When none is supported, or creating or starting the
\* recorder throws, it shows an error and the page stays as it was, ready to start:
\* no recorder becomes active, no timer is started, startBtn stays enabled, stopBtn
\* stays disabled and pickSourceBtn stays enabled, with the same stream held.
C19_FailedStartStaysReady ==
    [][event'.op = "startRecording" =>
        /\ currentStream = 0 => UNCHANGED ctrl
        /\ event'.mimeType =
               IF currentStream = 0 THEN ""
               ELSE IF types[1] \in event'.supported THEN types[1]
               ELSE IF types[2] \in event'.supported THEN types[2]
               ELSE IF types[3] \in event'.supported THEN types[3]
               ELSE ""
        /\ event'.rec # 0 => event'.mimeType # ""
        /\ currentStream # 0 /\ event'.mimeType = "" => event'.shown.type = "error"
        /\ currentStream # 0 /\ event'.rec = 0 => event'.shown.type = "error"
        /\ event'.shown # NoMessage =>
            /\ event'.rec = 0
            /\ enc' = enc
            /\ timers' = timers /\ timerInterval' = timerInterval
            /\ (\A r \in Recs : enc[r].phase # "recording") =>
                   \A r \in Recs : enc'[r].phase # "recording"
            /\ ~startDisabled'
            /\ stopDisabled => stopDisabled'
            /\ ~pickSourceDisabled => ~pickSourceDisabled'
            /\ currentStream' = currentStream /\ currentStream' # 0
      ]_vars

\* A start that threw after vp8+opus had been chosen as the first supported
\* format: the page is still ready to start, with nothing recording.
C19_Witness ==
    /\ event.op = "startRecording"
    /\ event.supported = {types[2], types[3]} /\ event.mimeType = types[2]
    /\ event.shown = [text |-> "Failed to start recording", type |-> "error"]
    /\ currentStream # 0 /\ ~startDisabled /\ stopDisabled /\ ~pickSourceDisabled
    /\ timers = {} /\ \A r \in Recs : enc[r].phase # "recording"

\* C20: in every reachable state at most one interval timer is scheduled, and
\* after every task that ran resetToInitial no interval timer is left scheduled.
C20_OneTimer ==
    /\ Cardinality(timers) <= 1
    /\ event.reset => timers = {}

====
